---- MODULE Spec2Model ----
(***************************************************************************)
(* Model of scripts/example.py: class Neo4jUtil, a client that builds      *)
(* Cypher text from typed arguments, hands it to the driver (run) and      *)
(* serializes the rows that come back.  The database is modelled as the    *)
(* graph it stores; each call of run is one auto-commit round trip.        *)
(*                                                                         *)
(* Text is a sequence of one-character strings, so that the quoting done   *)
(* by str.format and the reading done by the Cypher parser are two         *)
(* different functions.                                                    *)
(***************************************************************************)
EXTENDS Integers, Sequences, FiniteSets, TLC

\* ------------------------------------------------------------ bounds
\* Ids the database hands out to nodes (1..MaxNodeId), never reused.
MaxNodeId == 2
\* Ids the database hands out to relationships (1..MaxRelId), never reused.
MaxRelId == 2

\* ------------------------------------------------------------ python values
DQ == "\""
SQ == "'"
BS == "\\"

PyNone == [t |-> "none", s |-> <<>>, n |-> 0, l |-> <<>>]
PyStr(chars) == [t |-> "str", s |-> chars, n |-> 0, l |-> <<>>]
PyInt(k) == [t |-> "int", s |-> <<>>, n |-> k, l |-> <<>>]
PyBool(b) == [t |-> "bool", s |-> <<>>, n |-> (IF b THEN 1 ELSE 0), l |-> <<>>]
\* a float is kept as the digits python prints for it
PyFloat(digits) == [t |-> "float", s |-> digits, n |-> 0, l |-> <<>>]
PyList(elems) == [t |-> "list", s |-> <<>>, n |-> 0, l |-> elems]
\* a value of a type properties2cypher does not know (a dict, a bytes, ...)
PyDict == [t |-> "dict", s |-> <<>>, n |-> 0, l |-> <<>>]

\* ------------------------------------------------------------ str.format
Digit(d) == <<"0", "1", "2", "3", "4", "5", "6", "7", "8", "9">>[d + 1]

RECURSIVE NatText(_)
NatText(k) == IF k < 10 THEN <<Digit(k)>> ELSE NatText(k \div 10) \o <<Digit(k % 10)>>

IntText(k) == IF k < 0 THEN <<"-">> \o NatText(0 - k) ELSE NatText(k)

\* repr of a str inside a list: single quotes, backslashes doubled
RECURSIVE ReprChars(_)
ReprChars(chars) ==
    IF chars = <<>> THEN <<>>
    ELSE (IF Head(chars) = BS THEN <<BS, BS>> ELSE <<Head(chars)>>) \o ReprChars(Tail(chars))

PyReprScalar(v) ==
    CASE v.t = "none" -> <<"N", "o", "n", "e">>
      [] v.t = "str" -> <<SQ>> \o ReprChars(v.s) \o <<SQ>>
      [] v.t = "int" -> IntText(v.n)
      [] v.t = "bool" -> IF v.n = 1 THEN <<"T", "r", "u", "e">> ELSE <<"F", "a", "l", "s", "e">>
      [] v.t = "float" -> v.s
      [] OTHER -> <<"{", "}">>

RECURSIVE JoinRepr(_)
JoinRepr(elems) ==
    IF elems = <<>> THEN <<>>
    ELSE IF Len(elems) = 1 THEN PyReprScalar(elems[1])
    ELSE PyReprScalar(elems[1]) \o <<",", " ">> \o JoinRepr(Tail(elems))

\* '{}'.format(value): str(value)
PyFormat(v) ==
    CASE v.t = "str" -> v.s
      [] v.t = "list" -> <<"[">> \o JoinRepr(v.l) \o <<"]">>
      [] OTHER -> PyReprScalar(v)

\* ------------------------------------------------------------ cypher literals
\* What the database's parser makes of the text the client put where an
\* expression is expected.  ok = FALSE is a CypherSyntaxError raised by run.
ParseErr == [ok |-> FALSE, v |-> PyNone]
ParseOk(v) == [ok |-> TRUE, v |-> v]

Digits == {"0", "1", "2", "3", "4", "5", "6", "7", "8", "9"}
DigitVal(c) == CHOOSE d \in 0..9 : Digit(d) = c

IsDigits(txt) == txt # <<>> /\ \A i \in 1..Len(txt) : txt[i] \in Digits

RECURSIVE TextNat(_)
TextNat(txt) ==
    IF Len(txt) = 1 THEN DigitVal(txt[1])
    ELSE 10 * TextNat(SubSeq(txt, 1, Len(txt) - 1)) + DigitVal(txt[Len(txt)])

IsFloatText(txt) ==
    \E i \in 2..(Len(txt) - 1) :
        /\ txt[i] = "."
        /\ IsDigits(SubSeq(txt, 1, i - 1))
        /\ IsDigits(SubSeq(txt, i + 1, Len(txt)))

\* a quoted string: up to the first unescaped closing quote, which must end the
\* expression; a backslash takes the next character when that is an escape
RECURSIVE ScanString(_, _, _, _)
ScanString(txt, q, i, acc) ==
    IF i > Len(txt) THEN ParseErr
    ELSE IF txt[i] = q THEN (IF i = Len(txt) THEN ParseOk(PyStr(acc)) ELSE ParseErr)
    ELSE IF txt[i] = BS THEN
        IF i + 1 > Len(txt) THEN ParseErr
        ELSE IF txt[i + 1] \in {BS, DQ, SQ}
             THEN ScanString(txt, q, i + 2, Append(acc, txt[i + 1]))
             ELSE ParseErr
    ELSE ScanString(txt, q, i + 1, Append(acc, txt[i]))

Lower(c) ==
    CASE c = "T" -> "t" [] c = "F" -> "f" [] c = "N" -> "n" [] OTHER -> c

LowerText(txt) == [i \in 1..Len(txt) |-> Lower(txt[i])]

ParseScalar(txt) ==
    IF txt = <<>> THEN ParseErr
    ELSE IF txt[1] \in {DQ, SQ} THEN ScanString(txt, txt[1], 2, <<>>)
    ELSE IF IsDigits(txt) THEN ParseOk(PyInt(TextNat(txt)))
    ELSE IF txt[1] = "-" /\ IsDigits(Tail(txt)) THEN ParseOk(PyInt(0 - TextNat(Tail(txt))))
    ELSE IF IsFloatText(txt) THEN ParseOk(PyFloat(txt))
    ELSE IF LowerText(txt) = <<"t", "r", "u", "e">> THEN ParseOk(PyBool(TRUE))
    ELSE IF LowerText(txt) = <<"f", "a", "l", "s", "e">> THEN ParseOk(PyBool(FALSE))
    ELSE ParseErr  \* an identifier such as None: variable not defined

\* the elements of a list literal, cut at the commas (no string of the model
\* holds a comma), each without the blank that follows a comma
RECURSIVE SplitElems(_)
SplitElems(txt) ==
    IF \E i \in 1..Len(txt) : txt[i] = ","
    THEN LET i == CHOOSE j \in 1..Len(txt) :
                      txt[j] = "," /\ \A k \in 1..(j - 1) : txt[k] # ","
             rest == SubSeq(txt, i + 1, Len(txt))
         IN  <<SubSeq(txt, 1, i - 1)>>
                 \o SplitElems(IF rest # <<>> /\ rest[1] = " " THEN Tail(rest) ELSE rest)
    ELSE <<txt>>

ParseList(txt) ==
    LET Build(got) ==
            IF \A i \in 1..Len(got) : got[i].ok
            THEN ParseOk(PyList([i \in 1..Len(got) |-> got[i].v]))
            ELSE ParseErr
        Each(parts) == Build([i \in 1..Len(parts) |-> ParseScalar(parts[i])])
        Inner(inner) == Each(IF inner = <<>> THEN <<>> ELSE SplitElems(inner))
    IN  Inner(SubSeq(txt, 2, Len(txt) - 1))

ParseLiteral(txt) ==
    IF Len(txt) >= 2 /\ txt[1] = "[" /\ txt[Len(txt)] = "]" THEN ParseList(txt)
    ELSE ParseScalar(txt)

\* ------------------------------------------------------------ the database
\* db.nodes : id -> [labels, props]      db.rels : id -> [type, head, tail, props]
\* db.uniques : set of <<label, property>>   db.nid, db.rid : last ids handed out
EmptyProps == [k \in {} |-> PyNone]

EmptyDb == [nodes |-> [i \in {} |-> 0], rels |-> [i \in {} |-> 0],
            uniques |-> {}, nid |-> 0, rid |-> 0]

SetProp(props, key, v) ==
    [k \in DOMAIN props \cup {key} |-> IF k = key THEN v ELSE props[k]]

\* n:A:B as the parser reads it; nothing after the colon is a syntax error
ParseLabels(txt) ==
    IF txt = <<>> THEN [ok |-> FALSE, labels |-> {}]
    ELSE [ok |-> TRUE, labels |-> {txt[i] : i \in {j \in 1..Len(txt) : j % 2 = 1}}]

\* SET n.BTkeyBT = <literal> ..., left to right; the query is compiled before it
\* runs, so one unreadable literal fails it whole
ParseItems(items) ==
    [i \in 1..Len(items) |-> [key |-> items[i].key, p |-> ParseLiteral(items[i].lit)]]

ItemsOk(parsed) == \A i \in 1..Len(parsed) : parsed[i].p.ok

RECURSIVE ApplySets(_, _)
ApplySets(props, parsed) ==
    IF parsed = <<>> THEN props
    ELSE ApplySets(SetProp(props, Head(parsed).key, Head(parsed).p.v), Tail(parsed))

\* a uniqueness constraint on (label, property) is broken by two nodes of that
\* label holding the same value
ViolatesUnique(nodes, uniques) ==
    \E u \in uniques : \E a, b \in DOMAIN nodes :
        /\ a # b
        /\ u[1] \in nodes[a].labels /\ u[1] \in nodes[b].labels
        /\ u[2] \in DOMAIN nodes[a].props /\ u[2] \in DOMAIN nodes[b].props
        /\ nodes[a].props[u[2]] = nodes[b].props[u[2]]

HasRelations(db, id) ==
    \E r \in DOMAIN db.rels : db.rels[r].head = id \/ db.rels[r].tail = id

\* ID(x) = <value>: the nodes or relationships whose id equals the value read
IdMatches(ids, v) == {i \in ids : v.t = "int" /\ v.n = i}

RunOut(exc, rows, db) == [exc |-> exc, rows |-> rows, db |-> db]

\* CREATE CONSTRAINT ON (n: <labels>) ASSERT n.BT<prop>BT IS UNIQUE
RunCreateConstraint(db, ltxt, prop) ==
    LET pl == ParseLabels(ltxt)
        u == <<CHOOSE x \in pl.labels : TRUE, prop>>
    IN  IF ~pl.ok \/ Cardinality(pl.labels) # 1 THEN RunOut("CypherSyntaxError", {}, db)
        ELSE IF u \in db.uniques THEN RunOut("ClientError", {}, db)
        ELSE IF ViolatesUnique(db.nodes, {u}) THEN RunOut("ClientError", {}, db)
        ELSE RunOut("none", {}, [db EXCEPT !.uniques = @ \cup {u}])

\* MATCH (n:<labels>) WHERE n.name=<literal> RETURN ID(n)
RunMatchByName(db, ltxt, nameLit) ==
    LET Run(pl, nm) ==
            IF ~pl.ok \/ ~nm.ok THEN RunOut("CypherSyntaxError", {}, db)
            ELSE RunOut("none",
                        {i \in DOMAIN db.nodes :
                            /\ pl.labels \subseteq db.nodes[i].labels
                            /\ "name" \in DOMAIN db.nodes[i].props
                            /\ db.nodes[i].props["name"] = nm.v},
                        db)
    IN  Run(ParseLabels(ltxt), ParseLiteral(nameLit))

\* MERGE in place of CREATE: a node that matches is returned, none is added
RunMergeNode(db, ltxt, nameLit, items) ==
    LET id == db.nid + 1
        Put(pl, props) ==
            [db EXCEPT !.nid = id,
                       !.nodes = [i \in DOMAIN db.nodes \cup {id} |->
                                     IF i = id THEN [labels |-> pl.labels, props |-> props]
                                     ELSE db.nodes[i]]]
        Run(pl, nm, sets, hit) ==
            IF ~pl.ok \/ ~nm.ok \/ ~ItemsOk(sets) THEN RunOut("CypherSyntaxError", {}, db)
            ELSE IF hit # {} THEN RunOut("none", {CHOOSE i \in hit : TRUE}, db)
            ELSE RunOut("none", {id},
                        Put(pl, ApplySets(SetProp(EmptyProps, "name", nm.v), sets)))
    IN  Run(ParseLabels(ltxt), ParseLiteral(nameLit), ParseItems(items),
            RunMatchByName(db, ltxt, nameLit).rows)

\* CREATE (n: <labels>) SET n.name=<literal> <sets> RETURN n
RunCreateNode(db, ltxt, nameLit, items) ==
    LET id == db.nid + 1
        Put(nodes2) ==
            IF ViolatesUnique(nodes2, db.uniques) THEN RunOut("ConstraintError", {}, db)
            ELSE RunOut("none", {id}, [db EXCEPT !.nodes = nodes2, !.nid = id])
        New(pl, props) ==
            Put([i \in DOMAIN db.nodes \cup {id} |->
                    IF i = id THEN [labels |-> pl.labels, props |-> props]
                    ELSE db.nodes[i]])
        Run(pl, nm, sets) ==
            IF ~pl.ok \/ ~nm.ok \/ ~ItemsOk(sets) THEN RunOut("CypherSyntaxError", {}, db)
            ELSE New(pl, ApplySets(SetProp(EmptyProps, "name", nm.v), sets))
    IN  Run(ParseLabels(ltxt), ParseLiteral(nameLit), ParseItems(items))

\* MATCH (n) WHERE ID(n) = <id> DELETE n
RunDeleteNode(db, idLit) ==
    LET Delete(hit) ==
            IF \E i \in hit : HasRelations(db, i) THEN RunOut("ConstraintError", {}, db)
            ELSE RunOut("none", {},
                        [db EXCEPT !.nodes = [i \in DOMAIN db.nodes \ hit |-> db.nodes[i]]])
        Run(id) ==
            IF ~id.ok THEN RunOut("CypherSyntaxError", {}, db)
            ELSE Delete(IdMatches(DOMAIN db.nodes, id.v))
    IN  Run(ParseLiteral(idLit))

\* MATCH (n) WHERE ID(n) = <id> <sets> RETURN n
RunMatchNode(db, idLit, items) ==
    LET Put(hit, nodes2) ==
            IF ViolatesUnique(nodes2, db.uniques) THEN RunOut("ConstraintError", {}, db)
            ELSE RunOut("none", hit, [db EXCEPT !.nodes = nodes2])
        Set(hit, sets) ==
            Put(hit, [i \in DOMAIN db.nodes |->
                         IF i \in hit
                         THEN [db.nodes[i] EXCEPT !.props = ApplySets(@, sets)]
                         ELSE db.nodes[i]])
        Run(id, sets) ==
            IF ~id.ok \/ ~ItemsOk(sets) THEN RunOut("CypherSyntaxError", {}, db)
            ELSE Set(IdMatches(DOMAIN db.nodes, id.v), sets)
    IN  Run(ParseLiteral(idLit), ParseItems(items))

\* MATCH (n) WHERE ID(n) = <id> REMOVE n.BT<key>BT
RunRemoveProperty(db, idLit, key) ==
    LET Remove(hit) ==
            RunOut("none", {},
                [db EXCEPT !.nodes = [i \in DOMAIN db.nodes |->
                    IF i \in hit
                    THEN [db.nodes[i] EXCEPT
                             !.props = [k \in DOMAIN @ \ {key} |-> @[k]]]
                    ELSE db.nodes[i]]])
        Run(id) ==
            IF ~id.ok THEN RunOut("CypherSyntaxError", {}, db)
            ELSE Remove(IdMatches(DOMAIN db.nodes, id.v))
    IN  Run(ParseLiteral(idLit))

\* BT stands for the backtick character.  A backtick-quoted identifier: empty,
\* or holding a backtick, it does not parse
BT == "BT"
ParseQuotedIdent(txt) ==
    IF /\ Len(txt) >= 3
       /\ txt[1] = BT /\ txt[Len(txt)] = BT
       /\ \A i \in 2..(Len(txt) - 1) : txt[i] # BT
    THEN [ok |-> TRUE, name |-> SubSeq(txt, 2, Len(txt) - 1)]
    ELSE [ok |-> FALSE, name |-> <<>>]

\* the bindings of (n)-[r]->(m), or of (n)-[r]-(m) which takes r both ways
PatternRows(db, directed) ==
    {b \in (DOMAIN db.nodes) \X (DOMAIN db.rels) \X (DOMAIN db.nodes) :
        \/ db.rels[b[2]].head = b[1] /\ db.rels[b[2]].tail = b[3]
        \/ ~directed /\ db.rels[b[2]].head = b[3] /\ db.rels[b[2]].tail = b[1]}

\* MATCH (n)-[r]->(m) | (n)-[r]-(m) WHERE ID(n)=<h> AND ID(m)=<t> AND type(r) = '<type>' RETURN r
RunMatchPattern(db, directed, hLit, tLit, typeLit) ==
    LET Run(h, t, ty) ==
            IF ~h.ok \/ ~t.ok \/ ~ty.ok THEN RunOut("CypherSyntaxError", {}, db)
            ELSE RunOut("none",
                        {b[2] : b \in {x \in PatternRows(db, directed) :
                            /\ x[1] \in IdMatches(DOMAIN db.nodes, h.v)
                            /\ x[3] \in IdMatches(DOMAIN db.nodes, t.v)
                            /\ ty.v.t = "str" /\ db.rels[x[2]].type = ty.v.s}},
                        db)
    IN  Run(ParseLiteral(hLit), ParseLiteral(tLit), ParseLiteral(typeLit))

\* match (n1), (n2) where id(n1)=<h> and id(n2)=<t> create (n1)-[n:BT<type>BT]->(n2) <sets> return n
RunCreateRel(db, hLit, tLit, typeTxt, items) ==
    LET id == db.rid + 1
        Put(new) ==
            RunOut("none", {id},
                   [db EXCEPT !.rid = id,
                              !.rels = [r \in DOMAIN db.rels \cup {id} |->
                                           IF r = id THEN new ELSE db.rels[r]]])
        Create(n1, n2, ty, sets) ==
            IF n1 = {} \/ n2 = {} THEN RunOut("none", {}, db)
            ELSE Put([type |-> ty.name, head |-> CHOOSE i \in n1 : TRUE,
                      tail |-> CHOOSE i \in n2 : TRUE,
                      props |-> ApplySets(EmptyProps, sets)])
        Run(h, t, ty, sets) ==
            IF ~h.ok \/ ~t.ok \/ ~ty.ok \/ ~ItemsOk(sets)
            THEN RunOut("CypherSyntaxError", {}, db)
            ELSE Create(IdMatches(DOMAIN db.nodes, h.v), IdMatches(DOMAIN db.nodes, t.v),
                        ty, sets)
    IN  Run(ParseLiteral(hLit), ParseLiteral(tLit), ParseQuotedIdent(typeTxt),
            ParseItems(items))

\* MATCH ()-[r]->() WHERE ID(r)=<id> RETURN r, and
\* MATCH ()-[n]-() WHERE ID(n) = <id> <sets> return n (each relationship comes
\* back once per direction; the client reads only the first row)
RunMatchRel(db, idLit, items) ==
    LET Set(hit, sets) ==
            RunOut("none", hit,
                   [db EXCEPT !.rels = [r \in DOMAIN db.rels |->
                       IF r \in hit
                       THEN [db.rels[r] EXCEPT !.props = ApplySets(@, sets)]
                       ELSE db.rels[r]]])
        Run(id, sets) ==
            IF ~id.ok \/ ~ItemsOk(sets) THEN RunOut("CypherSyntaxError", {}, db)
            ELSE Set(IdMatches(DOMAIN db.rels, id.v), sets)
    IN  Run(ParseLiteral(idLit), ParseItems(items))

\* MATCH ()-[r]-() WHERE ID(r) = <id> DELETE r
RunDeleteRel(db, idLit) ==
    LET Delete(hit) ==
            RunOut("none", {},
                   [db EXCEPT !.rels = [r \in DOMAIN db.rels \ hit |-> db.rels[r]]])
        Run(id) ==
            IF ~id.ok THEN RunOut("CypherSyntaxError", {}, db)
            ELSE Delete(IdMatches(DOMAIN db.rels, id.v))
    IN  Run(ParseLiteral(idLit))

\* ------------------------------------------------------------ the client
\* What a call hands back: exc = "none" and the returned dict (status, message,
\* entity), or the exception that left the call.  q counts the calls of run.
NoEntity == [id |-> 0, labels |-> {}, type |-> <<>>, head |-> 0, tail |-> 0,
             props |-> EmptyProps]

Result(exc, status, message, entity, q) ==
    [exc |-> exc, status |-> status, message |-> message, entity |-> entity, q |-> q]

Raised(exc, q) == Result(exc, FALSE, "", NoEntity, q)

Out(db, ret) == [db |-> db, ret |-> ret]

RECURSIVE JoinLabels(_)
JoinLabels(labels) ==
    IF Len(labels) <= 1 THEN labels
    ELSE <<labels[1], ":">> \o JoinLabels(Tail(labels))

labels2cypher(labels) == JoinLabels(labels)

Quoted(chars) == <<DQ>> \o chars \o <<DQ>>

\* every value formatted as '"{}"', the str branch taken for all
RECURSIVE properties2cypher_quoted(_)
properties2cypher_quoted(properties) ==
    IF properties = <<>> THEN <<>>
    ELSE <<[key |-> Head(properties).key,
            lit |-> Quoted(PyFormat(Head(properties).value))]>>
             \o properties2cypher_quoted(Tail(properties))

RECURSIVE properties2cypher(_)
properties2cypher(properties) ==
    IF properties = <<>> THEN <<>>
    ELSE LET Item(key, value, text) ==
                 IF value.t = "none" THEN <<[key |-> key, lit |-> <<DQ, DQ>>]>>
                 ELSE IF value.t = "str" THEN <<[key |-> key, lit |-> Quoted(text)]>>
                 ELSE IF value.t \in {"int", "float", "bool", "list"}
                      THEN <<[key |-> key, lit |-> text]>>
                 ELSE <<>>
         IN  Item(Head(properties).key, Head(properties).value,
                  PyFormat(Head(properties).value))
                 \o properties2cypher(Tail(properties))

serialize_node(db, id) ==
    [NoEntity EXCEPT !.id = id, !.labels = db.nodes[id].labels,
                     !.props = db.nodes[id].props]

serialize_relation(db, id) ==
    [NoEntity EXCEPT !.id = id, !.type = db.rels[id].type,
                     !.head = db.rels[id].head, !.tail = db.rels[id].tail,
                     !.props = db.rels[id].props]

\* results[0][0]
First(rows) == CHOOSE i \in rows : TRUE

\* without the except clause: the executor's error leaves the call
set_unique_raising(db, labels, property_name) ==
    LET Reply(r) ==
            IF r.exc = "none" THEN Out(r.db, Result("none", TRUE, "succeed", NoEntity, 1))
            ELSE Out(db, Raised(r.exc, 1))
    IN  Reply(RunCreateConstraint(db, labels2cypher(labels), property_name))

set_unique(db, labels, property_name) ==
    LET Reply(r) ==
            IF r.exc = "none" THEN Out(r.db, Result("none", TRUE, "succeed", NoEntity, 1))
            ELSE Out(db, Result("none", TRUE, "exists", NoEntity, 1))
    IN  Reply(RunCreateConstraint(db, labels2cypher(labels), property_name))

\* returns a bool: status carries it
exists_node(db, labels, name) ==
    LET Reply(r) ==
            IF r.exc # "none" THEN Out(db, Raised(r.exc, 1))
            ELSE Out(db, Result("none", r.rows # {}, "", NoEntity, 1))
    IN  Reply(RunMatchByName(db, labels2cypher(labels), Quoted(name)))

\* create_node after exists_node has answered False: the CREATE round trip
create_node_run(db, labels, name, properties) ==
    LET Reply(r) ==
            IF r.exc # "none" THEN Out(db, Raised(r.exc, 2))
            ELSE Out(r.db, Result("none", TRUE, "succeed",
                                  serialize_node(r.db, First(r.rows)), 2))
    IN  Reply(RunCreateNode(db, labels2cypher(labels), Quoted(name),
              properties2cypher(properties)))

\* ConstraintError is not imported: when run raises, matching the except
\* clause looks the name up and that lookup raises NameError
delete_node(db, id) ==
    LET Reply(r) ==
            IF r.exc = "none" THEN Out(r.db, Result("none", TRUE, "deleted", NoEntity, 1))
            ELSE Out(db, Raised("NameError", 1))
    IN  Reply(RunDeleteNode(db, PyFormat(id)))

get_node(db, id) ==
    LET Reply(r) ==
            IF r.exc # "none" THEN Out(db, Raised(r.exc, 1))
            ELSE IF r.rows # {}
                 THEN Out(db, Result("none", TRUE, "succeed",
                                     serialize_node(r.db, First(r.rows)), 1))
                 ELSE Out(db, Result("none", FALSE, "not exists", NoEntity, 1))
    IN  Reply(RunMatchNode(db, PyFormat(id), <<>>))

update_node(db, id, properties) ==
    LET Reply(r) ==
            IF r.exc # "none" THEN Out(db, Raised(r.exc, 1))
            ELSE IF r.rows # {}
                 THEN Out(r.db, Result("none", TRUE, "updated",
                                       serialize_node(r.db, First(r.rows)), 1))
                 ELSE Out(db, Result("none", FALSE, "not exists", NoEntity, 1))
    IN  Reply(RunMatchNode(db, PyFormat(id), properties2cypher(properties)))

\* returns None
delete_property(db, id, key) ==
    LET Reply(r) ==
            IF r.exc # "none" THEN Out(db, Raised(r.exc, 1))
            ELSE Out(r.db, Result("none", FALSE, "None", NoEntity, 1))
    IN  Reply(RunRemoveProperty(db, PyFormat(id), key))

\* isinstance(id_, int): bool is a subclass of int
IsInstanceInt(v) == v.t \in {"int", "bool"}

\* without the isinstance test
get_relation_unchecked(db, id) ==
    IF id.t = "none" THEN Out(db, Raised("ValueError", 0))
    ELSE LET Reply(r) ==
                 IF r.exc # "none" THEN Out(db, Raised(r.exc, 1))
                 ELSE IF r.rows # {}
                      THEN Out(db, Result("none", TRUE, "succeed",
                                          serialize_relation(r.db, First(r.rows)), 1))
                      ELSE Out(db, Result("none", FALSE, "not exists", NoEntity, 1))
         IN  Reply(RunMatchRel(db, PyFormat(id), <<>>))

get_relation(db, id) ==
    IF id.t = "none" THEN Out(db, Raised("ValueError", 0))
    ELSE IF ~IsInstanceInt(id) THEN Out(db, Raised("ValueError", 0))
    ELSE LET Reply(r) ==
                 IF r.exc # "none" THEN Out(db, Raised(r.exc, 1))
                 ELSE IF r.rows # {}
                      THEN Out(db, Result("none", TRUE, "succeed",
                                          serialize_relation(r.db, First(r.rows)), 1))
                      ELSE Out(db, Result("none", FALSE, "not exists", NoEntity, 1))
         IN  Reply(RunMatchRel(db, PyFormat(id), <<>>))

\* the directed pattern taken whatever strict says
exists_relation_directed(db, head_id, tail_id, rtype, strict) ==
    LET Reply(r) ==
            IF r.exc # "none" THEN Out(db, Raised(r.exc, 1))
            ELSE Out(db, Result("none", r.rows # {}, "", NoEntity, 1))
    IN  Reply(RunMatchPattern(db, TRUE, PyFormat(head_id), PyFormat(tail_id),
              <<SQ>> \o rtype \o <<SQ>>))

\* returns a bool: status carries it
exists_relation(db, head_id, tail_id, rtype, strict) ==
    LET Reply(r) ==
            IF r.exc # "none" THEN Out(db, Raised(r.exc, 1))
            ELSE Out(db, Result("none", r.rows # {}, "", NoEntity, 1))
    IN  Reply(RunMatchPattern(db, strict, PyFormat(head_id), PyFormat(tail_id),
              <<SQ>> \o rtype \o <<SQ>>))

\* the existence check made with strict=True
create_relation_check_strict(db, head_id, tail_id, rtype) ==
    exists_relation(db, head_id, tail_id, rtype, TRUE)

\* create_relation calls exists_relation without strict: the default, False
create_relation_check(db, head_id, tail_id, rtype) ==
    exists_relation(db, head_id, tail_id, rtype, FALSE)

\* create_relation after exists_relation has answered False: results[0][0] of
\* no rows raises IndexError
create_relation_run(db, head_id, tail_id, properties, rtype) ==
    LET Reply(r) ==
            IF r.exc # "none" THEN Out(db, Raised(r.exc, 2))
            ELSE IF r.rows = {} THEN Out(r.db, Raised("IndexError", 2))
            ELSE Out(r.db, Result("none", TRUE, "succeed",
                                  serialize_relation(r.db, First(r.rows)), 2))
    IN  Reply(RunCreateRel(db, PyFormat(head_id), PyFormat(tail_id),
              <<BT>> \o rtype \o <<BT>>, properties2cypher(properties)))

update_relation(db, id, properties) ==
    LET Reply(r) ==
            IF r.exc # "none" THEN Out(db, Raised(r.exc, 1))
            ELSE IF r.rows # {}
                 THEN Out(r.db, Result("none", TRUE, "updated",
                                       serialize_relation(r.db, First(r.rows)), 1))
                 ELSE Out(db, Result("none", FALSE, "relation not exists", NoEntity, 1))
    IN  Reply(RunMatchRel(db, PyFormat(id), properties2cypher(properties)))

delete_relation(db, id) ==
    LET Reply(r) ==
            IF r.exc # "none" THEN Out(db, Raised(r.exc, 1))
            ELSE Out(r.db, Result("none", TRUE, "deleted", NoEntity, 1))
    IN  Reply(RunDeleteRel(db, PyFormat(id)))

\* ------------------------------------------------------------ state
\* db    the graph the server stores
\* pc    where each caller is: "idle", or between the two round trips of
\*       create_node / create_relation
\* call  each caller's current (or last) call and its arguments
\* ret   what each caller's last finished call handed back
\* made  for each relationship, the head and tail ids create_relation was
\*       called with (history, read by no operation)
VARIABLES db, pc, call, ret, made

vars == <<db, pc, call, ret, made>>

Callers == {"c1", "c2"}

NoCall == [op |-> "none", labels |-> <<>>, name |-> <<>>, props |-> <<>>,
           id |-> PyNone, id2 |-> PyNone, rtype |-> <<>>, strict |-> FALSE, key |-> ""]

NoResult == Result("none", FALSE, "", NoEntity, 0)

Init ==
    /\ db = EmptyDb
    /\ pc = [c \in Callers |-> "idle"]
    /\ call = [c \in Callers |-> NoCall]
    /\ ret = [c \in Callers |-> NoResult]
    /\ made = [r \in {} |-> 0]

\* a single round trip: the call starts, runs and returns in one step
Atomic(c, thecall, o) ==
    /\ pc[c] = "idle"
    /\ call' = [call EXCEPT ![c] = thecall]
    /\ db' = o.db
    /\ ret' = [ret EXCEPT ![c] = o.ret]
    /\ pc' = pc

\* ids still to be handed out, counting the creations already past their check
NodeIdsLeft == MaxNodeId - db.nid - Cardinality({c \in Callers : pc[c] = "create_node"})
RelIdsLeft == MaxRelId - db.rid - Cardinality({c \in Callers : pc[c] = "create_relation"})

SetUnique(c, labels, key) ==
    /\ Atomic(c, [NoCall EXCEPT !.op = "set_unique", !.labels = labels, !.key = key],
              set_unique(db, labels, key))
    /\ UNCHANGED made

ExistsNode(c, labels, name) ==
    /\ Atomic(c, [NoCall EXCEPT !.op = "exists_node", !.labels = labels, !.name = name],
              exists_node(db, labels, name))
    /\ UNCHANGED made

\* create_node, first round trip: exists_node.  The call returns here when the
\* node exists (or the query raised); otherwise it goes on to the CREATE.
CreateNodeCheck(c, labels, name, properties) ==
    LET Step(o) ==
            /\ pc[c] = "idle"
            /\ (o.ret.exc = "none" /\ ~o.ret.status) => NodeIdsLeft > 0
            /\ call' = [call EXCEPT ![c] = [NoCall EXCEPT !.op = "create_node",
                           !.labels = labels, !.name = name, !.props = properties]]
            /\ pc' = [pc EXCEPT ![c] = IF o.ret.exc = "none" /\ ~o.ret.status
                                       THEN "create_node" ELSE "idle"]
            /\ ret' = [ret EXCEPT ![c] =
                          IF o.ret.exc # "none" THEN o.ret
                          ELSE IF o.ret.status THEN Result("none", FALSE, "exists", NoEntity, 1)
                          ELSE NoResult]
            /\ UNCHANGED <<db, made>>
    IN  Step(exists_node(db, labels, name))

\* create_node, second round trip
CreateNodeRun(c) ==
    LET Step(o) ==
            /\ pc[c] = "create_node"
            /\ pc' = [pc EXCEPT ![c] = "idle"]
            /\ db' = o.db
            /\ ret' = [ret EXCEPT ![c] = o.ret]
            /\ UNCHANGED <<call, made>>
    IN  Step(create_node_run(db, call[c].labels, call[c].name, call[c].props))

DeleteNode(c, id) ==
    /\ Atomic(c, [NoCall EXCEPT !.op = "delete_node", !.id = id], delete_node(db, id))
    /\ UNCHANGED made

GetNode(c, id) ==
    /\ Atomic(c, [NoCall EXCEPT !.op = "get_node", !.id = id], get_node(db, id))
    /\ UNCHANGED made

UpdateNode(c, id, properties) ==
    /\ Atomic(c, [NoCall EXCEPT !.op = "update_node", !.id = id, !.props = properties],
              update_node(db, id, properties))
    /\ UNCHANGED made

DeleteProperty(c, id, key) ==
    /\ Atomic(c, [NoCall EXCEPT !.op = "delete_property", !.id = id, !.key = key],
              delete_property(db, id, key))
    /\ UNCHANGED made

GetRelation(c, id) ==
    /\ Atomic(c, [NoCall EXCEPT !.op = "get_relation", !.id = id], get_relation(db, id))
    /\ UNCHANGED made

ExistsRelation(c, head_id, tail_id, rtype, strict) ==
    /\ Atomic(c, [NoCall EXCEPT !.op = "exists_relation", !.id = head_id, !.id2 = tail_id,
                                !.rtype = rtype, !.strict = strict],
              exists_relation(db, head_id, tail_id, rtype, strict))
    /\ UNCHANGED made

\* create_relation, first round trip: exists_relation
CreateRelationCheck(c, head_id, tail_id, properties, rtype) ==
    LET Step(o) ==
            /\ pc[c] = "idle"
            /\ (o.ret.exc = "none" /\ ~o.ret.status) => RelIdsLeft > 0
            /\ call' = [call EXCEPT ![c] = [NoCall EXCEPT !.op = "create_relation",
                           !.id = head_id, !.id2 = tail_id, !.props = properties,
                           !.rtype = rtype]]
            /\ pc' = [pc EXCEPT ![c] = IF o.ret.exc = "none" /\ ~o.ret.status
                                       THEN "create_relation" ELSE "idle"]
            /\ ret' = [ret EXCEPT ![c] =
                          IF o.ret.exc # "none" THEN o.ret
                          ELSE IF o.ret.status THEN Result("none", FALSE, "exists", NoEntity, 1)
                          ELSE NoResult]
            /\ UNCHANGED <<db, made>>
    IN  Step(create_relation_check(db, head_id, tail_id, rtype))

\* the history with relationship id noted as made from head to tail
Remember(m, id, head, tail) ==
    [r \in DOMAIN m \cup {id} |->
        IF r = id THEN [head |-> head, tail |-> tail] ELSE m[r]]

\* create_relation, second round trip
CreateRelationRun(c) ==
    LET Step(o) ==
            /\ pc[c] = "create_relation"
            /\ pc' = [pc EXCEPT ![c] = "idle"]
            /\ db' = o.db
            /\ ret' = [ret EXCEPT ![c] = o.ret]
            /\ made' = IF ret'[c].exc = "none"
                       THEN Remember(made, ret'[c].entity.id, call[c].id.n, call[c].id2.n)
                       ELSE made
            /\ UNCHANGED call
    IN  Step(create_relation_run(db, call[c].id, call[c].id2, call[c].props, call[c].rtype))

UpdateRelation(c, id, properties) ==
    /\ Atomic(c, [NoCall EXCEPT !.op = "update_relation", !.id = id, !.props = properties],
              update_relation(db, id, properties))
    /\ UNCHANGED made

DeleteRelation(c, id) ==
    /\ Atomic(c, [NoCall EXCEPT !.op = "delete_relation", !.id = id],
              delete_relation(db, id))
    /\ made' = [r \in DOMAIN made \cap DOMAIN db'.rels |-> made[r]]

\* ------------------------------------------------------------ inputs
Prop(key, value) == [key |-> key, value |-> value]

NodeIdArgs == {PyInt(i) : i \in 1..MaxNodeId}
RelIdArgs == {PyInt(i) : i \in 1..MaxRelId}

LabelLists == {<<"P">>, <<"P", "E">>}
Names == {<<"a">>, <<"b">>}
Types == {<<"K">>, <<"L">>}

\* property maps for the node operations: none, a plain one, a null, and two
\* that carry the key the client itself sets
NodeProps == {<<>>, <<Prop("k", PyInt(7))>>, <<Prop("k", PyNone)>>,
              <<Prop("name", PyStr(<<"b">>))>>, <<Prop("name", PyNone)>>}

\* values of every type properties2cypher tells apart
RichValues == {PyNone, PyStr(<<>>), PyStr(<<"a">>), PyStr(<<"a", DQ>>), PyStr(<<BS, DQ>>),
               PyStr(<<BS>>), PyInt(0), PyInt(-12), PyBool(TRUE), PyBool(FALSE),
               PyFloat(<<"1", ".", "5">>), PyList(<<>>), PyList(<<PyInt(1), PyInt(2)>>),
               PyList(<<PyStr(<<"a", DQ>>)>>), PyList(<<PyNone>>), PyDict}

RichProps == {<<Prop("k", v)>> : v \in RichValues}
                 \cup {<<Prop("k", PyInt(0)), Prop("j", PyNone)>>,
                       <<Prop("j", PyStr(<<"a">>)), Prop("k", PyBool(TRUE))>>}

\* ids handed to get_relation: no id, a str, a bool, and ints
AnyIdArgs == {PyNone, PyStr(<<"a">>), PyBool(TRUE), PyFloat(<<"1", ".", "5">>)} \cup RelIdArgs

\* ------------------------------------------------------------ specifications
\* Two callers on one executor, every operation, each on the first node or
\* relationship.
Next ==
    \E c \in Callers :
        \/ SetUnique(c, <<"P">>, "name")
        \/ ExistsNode(c, <<"P">>, <<"a">>)
        \/ CreateNodeCheck(c, <<"P">>, <<"a">>, <<>>)
        \/ CreateNodeRun(c)
        \/ DeleteNode(c, PyInt(1))
        \/ GetNode(c, PyInt(1))
        \/ UpdateNode(c, PyInt(1), <<Prop("k", PyInt(7))>>)
        \/ DeleteProperty(c, PyInt(1), "k")
        \/ GetRelation(c, PyInt(1))
        \/ ExistsRelation(c, PyInt(1), PyInt(1), <<"K">>, FALSE)
        \/ CreateRelationCheck(c, PyInt(1), PyInt(1), <<>>, <<"K">>)
        \/ CreateRelationRun(c)
        \/ UpdateRelation(c, PyInt(1), <<Prop("k", PyInt(7))>>)
        \/ DeleteRelation(c, PyInt(1))

Spec == Init /\ [][Next]_vars

\* One caller, the node operations and the constraint.
NextNode ==
    \E c \in {"c1"} :
        \/ \E labels \in LabelLists \cup {<<>>}, key \in {"name", "k"} : SetUnique(c, labels, key)
        \/ \E labels \in LabelLists, name \in Names : ExistsNode(c, labels, name)
        \/ \E labels \in LabelLists, name \in Names, properties \in NodeProps :
               CreateNodeCheck(c, labels, name, properties)
        \/ CreateNodeRun(c)
        \/ \E id \in NodeIdArgs : DeleteNode(c, id)
        \/ \E id \in NodeIdArgs : GetNode(c, id)
        \/ \E id \in NodeIdArgs, properties \in NodeProps : UpdateNode(c, id, properties)
        \/ \E id \in NodeIdArgs : DeleteProperty(c, id, "k")

SpecNode == Init /\ [][NextNode]_vars

\* One caller, one label list, property values of every type.
NextProps ==
    \E c \in {"c1"} :
        \/ \E name \in Names, properties \in RichProps :
               CreateNodeCheck(c, <<"P">>, name, properties)
        \/ CreateNodeRun(c)
        \/ \E id \in NodeIdArgs : GetNode(c, id)

SpecProps == Init /\ [][NextProps]_vars

\* One caller, the constraint and the nodes it may or may not admit.
NextUnique ==
    \E c \in {"c1"} :
        \/ \E labels \in LabelLists \cup {<<>>}, key \in {"name", "k"} : SetUnique(c, labels, key)
        \/ \E name \in Names, properties \in {<<>>, <<Prop("name", PyStr(<<"b">>))>>} :
               CreateNodeCheck(c, <<"P">>, name, properties)
        \/ CreateNodeRun(c)

SpecUnique == Init /\ [][NextUnique]_vars

\* One caller, every operation that takes an id, over plain nodes.
NextRel ==
    \E c \in {"c1"} :
        \/ \E name \in Names : CreateNodeCheck(c, <<"P">>, name, <<>>)
        \/ CreateNodeRun(c)
        \/ \E id \in NodeIdArgs : DeleteNode(c, id)
        \/ \E id \in NodeIdArgs : GetNode(c, id)
        \/ \E id \in NodeIdArgs : UpdateNode(c, id, <<Prop("k", PyInt(7))>>)
        \/ \E id \in RelIdArgs : GetRelation(c, id)
        \/ \E h, t \in NodeIdArgs : CreateRelationCheck(c, h, t, <<>>, <<"K">>)
        \/ CreateRelationRun(c)
        \/ \E id \in RelIdArgs : UpdateRelation(c, id, <<Prop("k", PyInt(7))>>)
        \/ \E id \in RelIdArgs : DeleteRelation(c, id)

SpecRel == Init /\ [][NextRel]_vars

\* One caller, relationships made and asked for.
NextExists ==
    \E c \in {"c1"} :
        \/ \E name \in Names : CreateNodeCheck(c, <<"P">>, name, <<>>)
        \/ CreateNodeRun(c)
        \/ \E h, t \in NodeIdArgs, rtype \in Types, strict \in BOOLEAN :
               ExistsRelation(c, h, t, rtype, strict)
        \/ \E h, t \in NodeIdArgs, rtype \in Types : CreateRelationCheck(c, h, t, <<>>, rtype)
        \/ CreateRelationRun(c)

SpecExists == Init /\ [][NextExists]_vars

\* One caller, relationships made, read by id and deleted.
NextGet ==
    \E c \in {"c1"} :
        \/ \E name \in Names : CreateNodeCheck(c, <<"P">>, name, <<>>)
        \/ CreateNodeRun(c)
        \/ \E h, t \in NodeIdArgs : CreateRelationCheck(c, h, t, <<>>, <<"K">>)
        \/ CreateRelationRun(c)
        \/ \E id \in AnyIdArgs : GetRelation(c, id)
        \/ \E id \in RelIdArgs : DeleteRelation(c, id)

SpecGet == Init /\ [][NextGet]_vars

\* Two callers, creations only: the check-then-create windows overlap.
NextRace ==
    \E c \in Callers :
        \/ CreateNodeCheck(c, <<"P">>, <<"a">>, <<>>)
        \/ CreateNodeRun(c)
        \/ \E h, t \in NodeIdArgs : CreateRelationCheck(c, h, t, <<>>, <<"K">>)
        \/ CreateRelationRun(c)

SpecRace == Init /\ [][NextRace]_vars

\* ------------------------------------------------------------ properties
\* In the one-caller specifications every step that leaves an idle caller idle
\* is a whole call, described by call' and answered by ret'.
Returned(c, op) == pc[c] = "idle" /\ pc'[c] = "idle" /\ call'[c].op = op

Succeeded(r) == r.exc = "none" /\ r.status

Rejected(r, message) == r.exc = "none" /\ ~r.status /\ r.message = message

LabelSet(labels) == {labels[i] : i \in 1..Len(labels)}

\* the nodes that carry the labels and hold the name
NodesNamed(d, labels, name) ==
    {i \in DOMAIN d.nodes :
        /\ LabelSet(labels) \subseteq d.nodes[i].labels
        /\ "name" \in DOMAIN d.nodes[i].props
        /\ d.nodes[i].props["name"] = PyStr(name)}

\* the relationships of the type from h to t
RelsFromTo(d, h, t, rtype) ==
    {r \in DOMAIN d.rels :
        d.rels[r].type = rtype /\ d.rels[r].head = h /\ d.rels[r].tail = t}

Connects(d, h, t, rtype) == RelsFromTo(d, h, t, rtype) \cup RelsFromTo(d, t, h, rtype) # {}

\* C1: a caller whose createNode(labels, name, properties) succeeded and who
\* then calls createNode with the same labels and name, nothing in between,
\* gets status=false, message 'exists', and the database is left as it was.
C1_SecondCreateRejected ==
    [][\A c \in Callers :
          (/\ pc[c] = "idle"
           /\ call[c].op = "create_node" /\ Succeeded(ret[c])
           /\ call'[c].op = "create_node"
           /\ call'[c].labels = call[c].labels /\ call'[c].name = call[c].name)
          => (pc'[c] = "idle" /\ Rejected(ret'[c], "exists") /\ db' = db)]_vars

\* C2: whenever two callers have both come back from createNode with the same
\* labels and name, or from createRelation with the same head, tail and type,
\* each with status=true, each made both round trips (its existence check
\* answered false) and the database holds two such entities.
C2_BothSucceedMeansDuplicates ==
    \A c \in Callers : \A d \in Callers \ {c} :
        (/\ pc[c] = "idle" /\ pc[d] = "idle"
         /\ call[c].op = call[d].op
         /\ Succeeded(ret[c]) /\ Succeeded(ret[d]))
        => /\ ret[c].q = 2 /\ ret[d].q = 2
           /\ (call[c].op = "create_node"
                  /\ call[c].labels = call[d].labels /\ call[c].name = call[d].name)
              => Cardinality(NodesNamed(db, call[c].labels, call[c].name)) >= 2
           /\ (call[c].op = "create_relation"
                  /\ call[c].id = call[d].id /\ call[c].id2 = call[d].id2
                  /\ call[c].rtype = call[d].rtype)
              => Cardinality(RelsFromTo(db, call[c].id.n, call[c].id2.n,
                                        call[c].rtype)) >= 2

\* C2 happens: two nodes with the same labels and name are stored, and both
\* callers have come back with status=true from createRelation with the same
\* head, tail and type
C2_Witness ==
    /\ Cardinality(NodesNamed(db, <<"P">>, <<"a">>)) >= 2
    /\ pc["c1"] = "idle" /\ pc["c2"] = "idle"
    /\ call["c1"].op = "create_relation" /\ call["c2"] = call["c1"]
    /\ Succeeded(ret["c1"]) /\ Succeeded(ret["c2"])
    /\ Cardinality(RelsFromTo(db, call["c1"].id.n, call["c1"].id2.n, call["c1"].rtype)) = 2

\* C3: deleteNode(id) on a node that has a relationship returns status=false,
\* message 'still has relations' (a value, not an error) and the node stays;
\* on a node without relationships it returns status=true, 'deleted', and the
\* node is gone.
C3_DeleteNodeReports ==
    [][\A c \in Callers :
          (Returned(c, "delete_node") /\ call'[c].id.n \in DOMAIN db.nodes)
          => IF HasRelations(db, call'[c].id.n)
             THEN Rejected(ret'[c], "still has relations")
                  /\ call'[c].id.n \in DOMAIN db'.nodes
             ELSE Succeeded(ret'[c]) /\ ret'[c].message = "deleted"
                  /\ call'[c].id.n \notin DOMAIN db'.nodes]_vars

\* C4: getRelation(id) raises the invalid-argument error and sends no query
\* when id is null or not of an integer type; for the id of an existing
\* relationship it returns status=true and a record whose head_id and tail_id
\* are the ids the relationship was created with.
C4_GetRelation ==
    [][\A c \in Callers :
          Returned(c, "get_relation")
          => /\ call'[c].id.t \in {"none", "str", "float"}
                => ret'[c].exc = "ValueError" /\ ret'[c].q = 0 /\ db' = db
             /\ (call'[c].id.t = "int" /\ call'[c].id.n \in DOMAIN db.rels)
                => /\ Succeeded(ret'[c])
                   /\ ret'[c].entity.id = call'[c].id.n
                   /\ ret'[c].entity.head = made[call'[c].id.n].head
                   /\ ret'[c].entity.tail = made[call'[c].id.n].tail]_vars

\* C4 happens: getRelation has returned a relationship between two different
\* nodes
C4_Witness ==
    /\ call["c1"].op = "get_relation" /\ Succeeded(ret["c1"])
    /\ ret["c1"].entity.head # ret["c1"].entity.tail
    /\ ret["c1"].entity.head = made[ret["c1"].entity.id].head

\* C5: existsRelation(h, t, T, strict=false) is true iff a relationship of type
\* T joins h and t in either direction, and so agrees with
\* existsRelation(t, h, T, strict=false); existsRelation(h, t, T, strict=true)
\* is true iff a relationship of type T goes from h to t.
C5_ExistsRelation ==
    \A h \in NodeIdArgs, t \in NodeIdArgs, rtype \in Types :
        LET lax == exists_relation(db, h, t, rtype, FALSE).ret
            back == exists_relation(db, t, h, rtype, FALSE).ret
            strict == exists_relation(db, h, t, rtype, TRUE).ret
        IN  /\ lax.exc = "none" /\ back.exc = "none" /\ strict.exc = "none"
            /\ lax.status = Connects(db, h.n, t.n, rtype)
            /\ lax.status = back.status
            /\ strict.status = (RelsFromTo(db, h.n, t.n, rtype) # {})

\* C5 happens: existsRelation(h, t, T, strict=true) has answered false while a
\* relationship of type T goes from t to h
C5_Witness ==
    /\ call["c1"].op = "exists_relation" /\ call["c1"].strict
    /\ ret["c1"].exc = "none" /\ ~ret["c1"].status
    /\ RelsFromTo(db, call["c1"].id2.n, call["c1"].id.n, call["c1"].rtype) # {}

\* no two relationships of one type between the same two nodes
AtMostOnePerPair(d) ==
    \A r1 \in DOMAIN d.rels, r2 \in DOMAIN d.rels :
        (/\ r1 # r2
         /\ d.rels[r1].type = d.rels[r2].type
         /\ {d.rels[r1].head, d.rels[r1].tail} = {d.rels[r2].head, d.rels[r2].tail})
        => FALSE

\* C6: with one caller, createRelation(h, t, properties, T) returns
\* status=false, 'exists', and creates nothing when a relationship of type T
\* already joins h and t in either direction; so no two relationships of one
\* type ever join the same two nodes; a relationship of another type between
\* them does not block the creation.
C6_OnePerPairAndType ==
    [][/\ AtMostOnePerPair(db')
       /\ \A c \in Callers :
             (pc[c] = "idle" /\ call'[c].op = "create_relation" /\ pc'[c] # "idle")
             => ~Connects(db, call'[c].id.n, call'[c].id2.n, call'[c].rtype)
       /\ \A c \in Callers :
             (Returned(c, "create_relation")
                 /\ Connects(db, call'[c].id.n, call'[c].id2.n, call'[c].rtype))
             => Rejected(ret'[c], "exists") /\ db' = db
       /\ \A c \in Callers :
             (/\ pc[c] = "idle" /\ call'[c].op = "create_relation"
              /\ ~Connects(db, call'[c].id.n, call'[c].id2.n, call'[c].rtype))
             => pc'[c] = "create_relation"
       /\ \A c \in Callers :
             (/\ pc[c] = "create_relation" /\ pc'[c] = "idle"
              /\ {call[c].id.n, call[c].id2.n} \subseteq DOMAIN db.nodes)
             => /\ Succeeded(ret'[c])
                /\ Cardinality(DOMAIN db'.rels) = Cardinality(DOMAIN db.rels) + 1]_vars

\* C6 happens: createRelation(h, t, _, T) has been rejected with 'exists' while
\* the only relationship of type T between the two goes from t to h, and a
\* relationship of another type joins the same two nodes
C6_Witness ==
    /\ call["c1"].op = "create_relation" /\ Rejected(ret["c1"], "exists")
    /\ call["c1"].id # call["c1"].id2
    /\ RelsFromTo(db, call["c1"].id.n, call["c1"].id2.n, call["c1"].rtype) = {}
    /\ RelsFromTo(db, call["c1"].id2.n, call["c1"].id.n, call["c1"].rtype) # {}
    /\ \E other \in Types \ {call["c1"].rtype} :
           Connects(db, call["c1"].id.n, call["c1"].id2.n, other)

\* C7: ensureUniqueConstraint always returns status=true and lets no executor
\* error out: 'succeed' when the query ran, 'exists' when the executor raised
\* anything; for a (label, property) pair already registered it is no error
\* and the registered constraints stay as they were.
C7_SetUniqueNeverRaises ==
    [][\A c \in Callers :
          Returned(c, "set_unique")
          => LET r == RunCreateConstraint(db, labels2cypher(call'[c].labels), call'[c].key)
             IN  /\ ret'[c].exc = "none" /\ ret'[c].status
                 /\ ret'[c].message = IF r.exc = "none" THEN "succeed" ELSE "exists"
                 /\ db.uniques \subseteq db'.uniques
                 /\ (Len(call'[c].labels) = 1
                        /\ <<call'[c].labels[1], call'[c].key>> \in db.uniques)
                    => ret'[c].message = "exists" /\ db' = db]_vars

\* C7 happens: ensureUniqueConstraint has answered 'exists' for a pair that is
\* registered
C7_Witness ==
    /\ call["c1"].op = "set_unique" /\ Succeeded(ret["c1"])
    /\ ret["c1"].message = "exists"
    /\ Len(call["c1"].labels) = 1
    /\ <<call["c1"].labels[1], call["c1"].key>> \in db.uniques

\* C8: no operation raises because its target is missing: getNode, updateNode,
\* getRelation and updateRelation with an id that matches nothing, and
\* createRelation with a head or tail that matches no node, return a result
\* with status=false.
C8_MissingTargetNeverRaises ==
    [][\A c \in Callers :
          /\ ((Returned(c, "get_node") \/ Returned(c, "update_node"))
                 /\ call'[c].id.n \notin DOMAIN db.nodes)
             => ret'[c].exc = "none" /\ ~ret'[c].status
          /\ ((Returned(c, "get_relation") \/ Returned(c, "update_relation"))
                 /\ call'[c].id.t = "int" /\ call'[c].id.n \notin DOMAIN db.rels)
             => ret'[c].exc = "none" /\ ~ret'[c].status
          /\ (/\ call'[c].op = "create_relation" /\ pc'[c] = "idle"
              /\ ~({call'[c].id.n, call'[c].id2.n} \subseteq DOMAIN db.nodes))
             => ret'[c].exc = "none" /\ ~ret'[c].status]_vars

\* the map a property list stands for
AsMap(properties) ==
    [k \in {properties[i].key : i \in 1..Len(properties)} |->
        (CHOOSE p \in {properties[i] : i \in 1..Len(properties)} : p.key = k).value]

WithoutName(props) == [k \in DOMAIN props \ {"name"} |-> props[k]]

IsScalar(v) == v.t \in {"none", "str", "int", "float", "bool"}

Supported(v) ==
    IsScalar(v) \/ (v.t = "list" /\ \A i \in 1..Len(v.l) : IsScalar(v.l[i]))

SupportedMap(properties) ==
    \A i \in 1..Len(properties) :
        Supported(properties[i].value) /\ properties[i].key # "name"

\* createNode has just succeeded for caller c, who now reads the node back
ReadsBack(c) ==
    /\ pc[c] = "idle" /\ call[c].op = "create_node" /\ Succeeded(ret[c])
    /\ Returned(c, "get_node") /\ call'[c].id = PyInt(ret[c].entity.id)

PlainChars(chars) == \A i \in 1..Len(chars) : chars[i] \notin {DQ, BS}

\* a value that is not null, a string only if plain, a list only of such
\* values that are not lists
Plain(v) ==
    CASE v.t = "str" -> PlainChars(v.s)
      [] v.t = "list" -> \A i \in 1..Len(v.l) : v.l[i].t # "none"
      [] OTHER -> v.t \in {"int", "float", "bool"}

PlainOrNullMap(properties) ==
    \A i \in 1..Len(properties) :
        /\ properties[i].key # "name"
        /\ Plain(properties[i].value) \/ properties[i].value.t = "none"

\* what comes back for a value: itself, and the empty string for null
ReadBack(v) == IF v.t = "none" THEN PyStr(<<>>) ELSE v

C10_NameIsTheArgument ==
    [][\A c \in Callers :
          (pc[c] = "create_node" /\ pc'[c] = "idle" /\ Succeeded(ret'[c]))
          => /\ db'.nodes[ret'[c].entity.id].props["name"] = PyStr(call[c].name)
             /\ Succeeded(exists_node(db', call[c].labels, call[c].name).ret)]_vars

====
